---- MODULE Spec2Model ----
(***************************************************************************)
(* A model of import.py: the import of cloud images as Proxmox VE          *)
(* templates.  The state is what main() and import_template() read and     *)
(* change: the command line, the tools on PATH, the storage inventory      *)
(* that pvesh reports, templates.yaml, the files under ./cloud_img, the VM *)
(* definition files under /etc/pve/qemu-server, and the ordered record of  *)
(* everything the script does to the outside world.                        *)
(*                                                                         *)
(* Text is held as TLC strings wherever the script only builds it          *)
(* (f-strings, paths, command lines).  The two texts the script takes      *)
(* apart are held as sequences of lexemes: a storage's content list (split *)
(* at commas) and an unpack command ({dl} and {img} replaced).             *)
(***************************************************************************)
EXTENDS Integers, Sequences, FiniteSets, TLC

VARIABLES
    argv,          \* sys.argv[1:]
    tools,         \* the external tools found on PATH
    storages,      \* the records `pvesh get /storage` returns
    yaml,          \* what yaml.safe_load(templates.yaml) gives
    files,         \* the paths that exist under ./cloud_img
    vmconfs,       \* the vmids with a /etc/pve/qemu-server/<vmid>.conf
    pc,            \* the statement main() / import_template() is at
    idx,           \* position of the for loop of main() in the template list
    storage_info,  \* main()'s storage_info
    log,           \* the external steps taken so far, in order
    failed,        \* whether some external step so far has failed
    exitcode,      \* the process's exit status, -1 until it ends
    exc            \* the exception that ended the run (the message of an
                   \* Exception, else the name of its class), "" if none

vars == <<argv, tools, storages, yaml, files, vmconfs, pc, idx, storage_info,
          log, failed, exitcode, exc>>

(***************************************************************************)
(* Bounds of the model.                                                    *)
(***************************************************************************)
MaxTemplates == 2   \* templates in templates.yaml
MaxStorages == 2    \* records in the storage inventory
MaxArgs == 2        \* entries of a customize list

SeqsUpTo(S, n) == UNION {[1..k -> S] : k \in 0..n}

Last(s) == s[Len(s)]

(***************************************************************************)
(* exit_missing_dep(): the exit status of a run that lacks a dependency.   *)
(***************************************************************************)
exit_missing_dep == 2

(***************************************************************************)
(* The exit status of the usage error of main(), and the status Python     *)
(* ends with on an uncaught exception or on falling off main().            *)
(***************************************************************************)
exit_usage == 1
exit_uncaught == 1
exit_ok == 0

(***************************************************************************)
(* StorageInfo: Dir and Raw carry the storage name; format_disk_name is    *)
(* the f-string of the class.  check_storage either returns one of them or *)
(* raises Exception(msg).                                                  *)
(***************************************************************************)
NoStorage == [cls |-> "None", name |-> "", msg |-> ""]
Dir(name) == [cls |-> "Dir", name |-> name, msg |-> ""]
Raw(name) == [cls |-> "Raw", name |-> name, msg |-> ""]
Raise(msg) == [cls |-> "Exception", name |-> "", msg |-> msg]

DirDiskName(vmid) == ToString(vmid) \o "/vm-" \o ToString(vmid) \o "-disk-0.qcow2"
RawDiskName(vmid) == "vm-" \o ToString(vmid) \o "-disk-0"

\* format_disk_name with the two conventions exchanged.
format_disk_name_swapped(storage, vmid) ==
    IF storage.cls = "Dir" THEN RawDiskName(vmid) ELSE DirDiskName(vmid)

format_disk_name(storage, vmid) ==
    IF storage.cls = "Dir" THEN DirDiskName(vmid) ELSE RawDiskName(vmid)

(***************************************************************************)
(* str.split(sep) on a text held as lexemes: the fields between the        *)
(* separators, each a (possibly empty) sequence of lexemes.                *)
(***************************************************************************)
RECURSIVE split(_, _)
split(s, sep) ==
    IF \A i \in 1..Len(s) : s[i] # sep
    THEN <<s>>
    ELSE LET i == CHOOSE k \in 1..Len(s) :
                      s[k] = sep /\ \A j \in 1..(k - 1) : s[j] # sep
         IN  <<SubSeq(s, 1, i - 1)>> \o split(SubSeq(s, i + 1, Len(s)), sep)

Contains(list, x) == \E i \in 1..Len(list) : list[i] = x

DirTypes == {"dir", "nfs", "glusterfs"}
RawTypes == {"zfspool", "lvm", "lvmthin"}

\* ClassifyType with lvmthin left out of the raw types.
ClassifyType_no_lvmthin(name, typ) ==
    IF typ \in DirTypes THEN Dir(name)
    ELSE IF typ \in RawTypes \ {"lvmthin"} THEN Raw(name)
    ELSE Raise("Unsupported PVE storage type " \o typ \o ".")

ClassifyType(name, typ) ==
    IF typ \in DirTypes THEN Dir(name)
    ELSE IF typ \in RawTypes THEN Raw(name)
    ELSE Raise("Unsupported PVE storage type " \o typ \o ".")

SupportsImages(storage) == Contains(split(storage.content, ","), <<"images">>)

(***************************************************************************)
(* check_storage(name): the for loop over the inventory, from record i on. *)
(***************************************************************************)
RECURSIVE check_storage_from(_, _, _)
check_storage_from(name, inventory, i) ==
    IF i > Len(inventory)
    THEN Raise("PVE storage " \o name \o " does not exist.")
    ELSE LET storage == inventory[i] IN
         IF storage.storage # name
         THEN check_storage_from(name, inventory, i + 1)
         ELSE IF ~SupportsImages(storage)
         THEN Raise("PVE storage " \o name \o " does not support VM images.")
         ELSE ClassifyType(name, storage.type)

check_storage(name, inventory) == check_storage_from(name, inventory, 1)

(***************************************************************************)
(* vm_exists(vmid)                                                         *)
(***************************************************************************)
ConfPath(vmid) == "/etc/pve/qemu-server/" \o ToString(vmid) \o ".conf"
\* vm_exists looking at a path that no VM definition has.
vm_exists_wrong_path(vmid, confs) == FALSE
vm_exists(vmid, confs) == vmid \in confs

(***************************************************************************)
(* build_customize_args(customize): customize is None when the template    *)
(* has no `customize` key.                                                 *)
(***************************************************************************)
RECURSIVE OptionPairs(_, _)
OptionPairs(flag, list) ==
    IF list = <<>> THEN <<>>
    ELSE <<flag, Head(list)>> \o OptionPairs(flag, Tail(list))

build_customize_args(template) ==
    IF "customize" \notin template.keys
    THEN <<>>
    ELSE OptionPairs("--upload", template.customize.uploads)
         \o OptionPairs("--run-command", template.customize.commands)

(***************************************************************************)
(* The two file names of import_template, and the unpack command with      *)
(* {dl} and {img} replaced.                                                *)
(***************************************************************************)
filename_dl(name) == "./cloud_img/" \o name \o ".img.download"
filename_img(name) == "./cloud_img/" \o name \o ".img"

replace(s, old, new) == [i \in 1..Len(s) |-> IF s[i] = old THEN new ELSE s[i]]

RECURSIVE Join(_)
Join(s) == IF s = <<>> THEN "" ELSE Head(s) \o Join(Tail(s))

UnpackCommand(template) ==
    Join(replace(replace(template.unpack, "{dl}", filename_dl(template.name)),
                 "{img}", filename_img(template.name)))

(***************************************************************************)
(* The suppress(FileNotFoundError) block that removes both files: the      *)
(* first os.remove that raises ends the block.                             *)
(***************************************************************************)
RemoveBoth(fs, dl, img) ==
    IF dl \notin fs THEN fs
    ELSE IF img \notin fs THEN fs \ {dl}
    ELSE fs \ {dl, img}

(***************************************************************************)
(* One entry of the record of external steps: t is the position of the     *)
(* template in the list (0 for the steps of main()), cmd the argument      *)
(* vector (a shell command line is a vector of one string), env the        *)
(* environment run() passes, res what the step returned to the script.     *)
(* run() discards the exit status of the command, so it is not recorded.   *)
(***************************************************************************)
Event(t, op, cmd, env, res) ==
    [t |-> t, op |-> op, cmd |-> cmd, env |-> env, res |-> res]

Shell(t, line) == Event(t, "run", <<line>>, {}, TRUE)

(***************************************************************************)
(* The inputs.  A template is a YAML mapping: the keys it has and their    *)
(* values (the value of a key it lacks is never read before the KeyError   *)
(* or the .get default, and is held at a fixed filler).                    *)
(***************************************************************************)
Tools == {"virt-customize", "unzip"}

RequiredKeys == {"vmid", "name", "url"}

NoCustomize == [uploads |-> <<>>, commands |-> <<>>]

Filler ==
    [vmid |-> 0, name |-> "", url |-> "", unpack |-> <<>>,
     customize |-> NoCustomize, cloud_init |-> FALSE]

Template(vmid, name) ==
    [keys |-> RequiredKeys \cup {"cloud_init"},
     vmid |-> vmid, name |-> name,
     url |-> "https://example/" \o name \o ".qcow2",
     unpack |-> <<>>, customize |-> NoCustomize, cloud_init |-> FALSE]

Without(template, key) ==
    [template EXCEPT !.keys = @ \ {key}, ![key] = Filler[key]]

With(template, key, value) ==
    [template EXCEPT !.keys = @ \cup {key}, ![key] = value]

UnpackTar == <<"tar xf ", "{dl}", " -O > ", "{img}">>

Uploads == {"motd:/etc", "sshd_config:/etc/ssh"}
Commands == {"apt-get update"}

Customizes ==
    {[uploads |-> u, commands |-> c] :
        u \in SeqsUpTo(Uploads, MaxArgs), c \in SeqsUpTo(Commands, MaxArgs)}

\* The templates of one name and vmid, over every optional key.
RichTemplates ==
    LET base == Without(Template(9000, "debian12"), "cloud_init")
        u1 == {base, With(base, "unpack", UnpackTar)}
        u2 == u1 \cup {With(t, "customize", c) : t \in u1, c \in Customizes}
    IN  u2 \cup {With(t, "cloud_init", b) : t \in u2, b \in BOOLEAN}

\* Plain templates that share names and vmids, and ones that lack a required key.
SimpleTemplates ==
    {Template(9000, "debian12"), Template(9001, "alpine"), Template(9000, "alpine")}
    \cup {Without(Template(9001, "alpine"), k) : k \in RequiredKeys}

Document(templates) == [kind |-> "ok", templates |-> templates]
\* templates.yaml that yaml.safe_load rejects, and one without the `templates` key.
BadDocuments == {[kind |-> k, templates |-> <<>>] : k \in {"invalid", "nokey"}}

DefaultDocument ==
    Document(<<With(Template(9000, "debian12"), "cloud_init", TRUE),
               Template(9001, "alpine")>>)

Record(name, content, type) == [storage |-> name, content |-> content, type |-> type]

Contents ==
    {<<"images">>, <<"iso", ",", "images", ",", "rootdir">>, <<"iso", ",", "rootdir">>}
Types == DirTypes \cup RawTypes \cup {"rbd"}

StorageRecords ==
    {Record("local", c, t) : c \in Contents, t \in Types}
    \cup {Record("tank", <<"images">>, "zfspool"), Record("tank", <<"iso">>, "dir")}

DefaultInventory ==
    <<Record("local", <<"iso", ",", "images", ",", "rootdir">>, "dir"),
      Record("tank", <<"images">>, "zfspool")>>

StorageArgs == {"local", "tank", "nowhere"}
NameArgs == {"debian12", "fedora"}
Argvs ==
    {<<>>} \cup {<<s>> : s \in StorageArgs}
    \cup {<<s, n>> : s \in StorageArgs, n \in NameArgs}

StaleFiles == {filename_dl("debian12"), filename_img("debian12")}

(***************************************************************************)
(* The state main() starts in.  The inputs are drawn one group at a time,  *)
(* the others held at a default: the command line and PATH, the storage    *)
(* inventory, the keys of one template with the leftovers of an earlier    *)
(* run, and the template list with the name filter.                        *)
(***************************************************************************)
InitStartup ==
    /\ tools \in SUBSET Tools
    /\ argv \in Argvs
    /\ storages = DefaultInventory
    /\ yaml = DefaultDocument
    /\ files = {}
    /\ vmconfs = {}

InitStorage ==
    /\ tools = Tools
    /\ argv = <<"local">>
    /\ storages \in SeqsUpTo(StorageRecords, MaxStorages)
    /\ yaml = Document(<<Template(9000, "debian12")>>)
    /\ files = {}
    /\ vmconfs = {}

InitPipeline ==
    /\ tools = Tools
    /\ argv \in {<<"local">>, <<"tank">>}
    /\ storages = DefaultInventory
    /\ yaml \in {Document(<<t>>) : t \in RichTemplates}
    /\ files \in SUBSET StaleFiles
    /\ vmconfs \in {{}, {9000}}

InitIteration ==
    /\ tools = Tools
    /\ argv \in {<<"local">>, <<"local", "debian12">>, <<"local", "fedora">>}
    /\ storages = DefaultInventory
    /\ yaml \in {Document(ts) : ts \in SeqsUpTo(SimpleTemplates, MaxTemplates)}
                \cup BadDocuments
    /\ files = {}
    /\ vmconfs \in SUBSET {9000, 9001}

Init ==
    /\ InitStartup \/ InitStorage \/ InitPipeline \/ InitIteration
    /\ pc = "main"
    /\ idx = 0
    /\ storage_info = NoStorage
    /\ log = <<>>
    /\ failed = FALSE
    /\ exitcode = -1
    /\ exc = ""

(***************************************************************************)
(* How a run ends: sys.exit(code), or an exception nothing catches.        *)
(***************************************************************************)
Exit(code) == pc' = "exit" /\ exitcode' = code /\ exc' = ""
Uncaught(e) == pc' = "exit" /\ exitcode' = exit_uncaught /\ exc' = e
Goto(p) == pc' = p /\ UNCHANGED <<exitcode, exc>>

Inputs == <<argv, tools, storages, yaml>>

(***************************************************************************)
(* main(), lines 164-168: the two probes of the external tools.            *)
(***************************************************************************)
ProbeCustomize == Event(0, "call", <<"virt-customize", "--version">>, {}, TRUE)
ProbeUnzip == Event(0, "call", <<"unzip">>, {}, TRUE)

\* CheckTools with only virt-customize probed.
CheckTools_without_unzip ==
    /\ pc = "main"
    /\ IF "virt-customize" \notin tools
       THEN log' = log /\ Exit(exit_missing_dep)
       ELSE log' = Append(log, ProbeCustomize) /\ Goto("args")
    /\ UNCHANGED <<Inputs, files, vmconfs, idx, storage_info, failed>>

CheckTools ==
    /\ pc = "main"
    /\ IF "virt-customize" \notin tools
       THEN log' = log /\ Exit(exit_missing_dep)
       ELSE IF "unzip" \notin tools
       THEN log' = Append(log, ProbeCustomize) /\ Exit(exit_missing_dep)
       ELSE log' = log \o <<ProbeCustomize, ProbeUnzip>> /\ Goto("args")
    /\ UNCHANGED <<Inputs, files, vmconfs, idx, storage_info, failed>>

(***************************************************************************)
(* main(), lines 170-178: the arguments and check_storage.  IndexError is  *)
(* the only exception caught; pvesh failing or check_storage raising ends  *)
(* the run.                                                                *)
(***************************************************************************)
QueryStorage ==
    Event(0, "check_output",
          <<"pvesh", "get", "/storage", "--output-format=json-pretty">>, {}, TRUE)

HasVmName == Len(argv) > 1
vm_name == argv[2]

ParseArgs ==
    /\ pc = "args"
    /\ IF Len(argv) < 1
       THEN /\ Exit(exit_usage)
            /\ UNCHANGED <<log, storage_info, failed>>
       ELSE /\ log' = Append(log, QueryStorage)
            /\ \E ok \in BOOLEAN :
                 IF ~ok
                 THEN /\ Uncaught("CalledProcessError")
                      /\ failed' = TRUE
                      /\ UNCHANGED storage_info
                 ELSE LET info == check_storage(argv[1], storages) IN
                      /\ UNCHANGED failed
                      /\ IF info.cls = "Exception"
                         THEN Uncaught(info.msg) /\ UNCHANGED storage_info
                         ELSE Goto("load") /\ storage_info' = info
    /\ UNCHANGED <<Inputs, files, vmconfs, idx>>

(***************************************************************************)
(* main(), lines 180-185: ./cloud_img, templates.yaml and the list the for *)
(* loop iterates.                                                          *)
(***************************************************************************)
LoadConfig ==
    /\ pc = "load"
    /\ log' = log \o <<Event(0, "makedirs", <<"./cloud_img">>, {}, TRUE),
                       Event(0, "open", <<"templates.yaml">>, {}, TRUE)>>
    /\ IF yaml.kind = "invalid" THEN Uncaught("YAMLError")
       ELSE IF yaml.kind = "nokey" THEN Uncaught("KeyError")
       ELSE Goto("loop")
    /\ UNCHANGED <<Inputs, files, vmconfs, idx, storage_info, failed>>

(***************************************************************************)
(* main(), lines 185-187: the next template of the list, the name filter,  *)
(* and the call of import_template.                                        *)
(***************************************************************************)
\* The filter of main() with the comparison of the name left out.
Selected_ignores_name(template) == TRUE

Selected(template) ==
    IF HasVmName THEN vm_name = template.name ELSE TRUE

NextTemplate ==
    /\ pc = "loop"
    /\ IF idx = Len(yaml.templates)
       THEN Exit(exit_ok) /\ UNCHANGED idx
       ELSE LET template == yaml.templates[idx + 1] IN
            /\ idx' = idx + 1
            /\ IF HasVmName /\ "name" \notin template.keys
               THEN Uncaught("KeyError")
               ELSE IF Selected(template)
               THEN Goto("import_template")
               ELSE Goto("loop")
    /\ UNCHANGED <<Inputs, files, vmconfs, storage_info, log, failed>>

(***************************************************************************)
(* import_template(template, storage): template is the one the loop of     *)
(* main() is at.  Every external step is its own action; run() does not    *)
(* look at the exit status of the command, so a command that fails changes *)
(* nothing but `failed` (and what the command itself left undone).         *)
(***************************************************************************)
template == yaml.templates[idx]

Issue(event, ok) == log' = Append(log, event) /\ failed' = (failed \/ ~ok)

\* A shell command of import_template that changes nothing this model holds.
RunQm(at, line, next) ==
    /\ pc = at
    /\ \E ok \in BOOLEAN : Issue(Shell(idx, line), ok)
    /\ Goto(next)
    /\ UNCHANGED <<Inputs, files, vmconfs, idx, storage_info>>

(***************************************************************************)
(* Lines 107-111: the required keys, vm_exists and the skip.               *)
(***************************************************************************)
ExistsCheck(vmid, res) == Event(idx, "exists", <<ConfPath(vmid)>>, {}, res)
SkipMessage(vmid) ==
    Event(idx, "print", <<"VM " \o ToString(vmid) \o " exists, skipping.">>, {}, TRUE)

CheckExists ==
    /\ pc = "import_template"
    /\ IF ~(RequiredKeys \subseteq template.keys)
       THEN Uncaught("KeyError") /\ UNCHANGED log
       ELSE IF vm_exists(template.vmid, vmconfs)
       THEN /\ log' = log \o <<ExistsCheck(template.vmid, TRUE),
                               SkipMessage(template.vmid)>>
            /\ Goto("loop")
       ELSE /\ log' = Append(log, ExistsCheck(template.vmid, FALSE))
            /\ Goto("remove_stale")
    /\ UNCHANGED <<Inputs, files, vmconfs, idx, storage_info, failed>>

(***************************************************************************)
(* Lines 113-121: the leftovers of an earlier run are removed.             *)
(***************************************************************************)
RemoveEvent(op) ==
    Event(idx, op, <<filename_dl(template.name), filename_img(template.name)>>,
          {}, TRUE)

RemoveStale ==
    /\ pc = "remove_stale"
    /\ files' = RemoveBoth(files, filename_dl(template.name),
                           filename_img(template.name))
    /\ log' = Append(log, RemoveEvent("remove_stale"))
    /\ Goto("download")
    /\ UNCHANGED <<Inputs, vmconfs, idx, storage_info, failed>>

(***************************************************************************)
(* Lines 123-124: urlretrieve into the download file.  It may raise, with  *)
(* or without a partial file written.                                      *)
(***************************************************************************)
DownloadEvent ==
    Event(idx, "urlretrieve", <<template.url, filename_dl(template.name)>>,
          {}, TRUE)

Download ==
    /\ pc = "download"
    /\ \E outcome \in {"ok", "error", "partial"} :
         /\ Issue(DownloadEvent, outcome = "ok")
         /\ files' = IF outcome = "error" THEN files
                     ELSE files \cup {filename_dl(template.name)}
         /\ IF outcome = "ok" THEN Goto("unpack") ELSE Uncaught("URLError")
    /\ UNCHANGED <<Inputs, vmconfs, idx, storage_info>>

(***************************************************************************)
(* Lines 126-130: the unpack command, or the rename of the download.  An   *)
(* unpack command that exits 0 has written the image and may have consumed *)
(* the download; one that fails leaves the download and may have written a *)
(* partial image.                                                          *)
(***************************************************************************)
HasUnpack == "unpack" \in template.keys /\ template.unpack # <<>>

Unpack ==
    /\ pc = "unpack"
    /\ LET dl == filename_dl(template.name)
           img == filename_img(template.name)
       IN  IF HasUnpack
           THEN \E ok \in BOOLEAN, keeps \in BOOLEAN, writes \in BOOLEAN :
                  /\ ok => writes
                  /\ ~ok => keeps
                  /\ Issue(Shell(idx, UnpackCommand(template)), ok)
                  /\ files' = (IF keeps THEN files ELSE files \ {dl})
                              \cup (IF writes THEN {img} ELSE {})
           ELSE /\ log' = Append(log, Event(idx, "rename", <<dl, img>>, {}, TRUE))
                /\ files' = (files \ {dl}) \cup {img}
                /\ UNCHANGED failed
    /\ Goto("customize")
    /\ UNCHANGED <<Inputs, vmconfs, idx, storage_info>>

(***************************************************************************)
(* Lines 132-136: virt-customize, when there is anything to customize.     *)
(***************************************************************************)
CustomizeEvent(args) ==
    Event(idx, "run", <<"virt-customize", "-a", filename_img(template.name)>> \o args,
          {<<"LIBGUESTFS_BACKEND", "direct">>}, TRUE)

Customize ==
    /\ pc = "customize"
    /\ LET customize_args == build_customize_args(template) IN
       IF Len(customize_args) # 0
       THEN \E ok \in BOOLEAN :
              /\ ok => filename_img(template.name) \in files
              /\ Issue(CustomizeEvent(customize_args), ok)
       ELSE UNCHANGED <<log, failed>>
    /\ Goto("create")
    /\ UNCHANGED <<Inputs, files, vmconfs, idx, storage_info>>

(***************************************************************************)
(* Lines 139-152: the qm commands.                                         *)
(***************************************************************************)
CreateLine ==
    "qm create " \o ToString(template.vmid) \o " --name " \o template.name
    \o " --memory 512 --net0 virtio,bridge=vmbr0"

Create ==
    /\ pc = "create"
    /\ \E ok \in BOOLEAN :
         /\ Issue(Shell(idx, CreateLine), ok)
         /\ vmconfs' = IF ok THEN vmconfs \cup {template.vmid} ELSE vmconfs
    /\ Goto("importdisk")
    /\ UNCHANGED <<Inputs, files, idx, storage_info>>

ImportDiskLine ==
    "qm importdisk " \o ToString(template.vmid) \o " " \o filename_img(template.name)
    \o " " \o storage_info.name \o " -format qcow2"

ImportDisk ==
    /\ pc = "importdisk"
    /\ \E ok \in BOOLEAN :
         /\ ok => filename_img(template.name) \in files
         /\ Issue(Shell(idx, ImportDiskLine), ok)
    /\ Goto("scsi")
    /\ UNCHANGED <<Inputs, files, vmconfs, idx, storage_info>>

AttachDiskLine ==
    LET disk == format_disk_name(storage_info, template.vmid) IN
    "qm set " \o ToString(template.vmid) \o " --scsihw virtio-scsi-pci --scsi0 "
    \o storage_info.name \o ":" \o disk

AttachDisk == RunQm("scsi", AttachDiskLine, "boot")

SetBootLine == "qm set " \o ToString(template.vmid) \o " --boot c --bootdisk scsi0"

SetBoot == RunQm("boot", SetBootLine, "serial")

SetSerialLine == "qm set " \o ToString(template.vmid) \o " --serial0 socket"

SetSerial == RunQm("serial", SetSerialLine, "cloud_init")

CloudInitDriveLine ==
    "qm set " \o ToString(template.vmid) \o " --ide2 " \o storage_info.name
    \o ":cloudinit"

\* Line 148 reads template['cloud_init']: a template without the key raises.
CloudInitDrive ==
    /\ pc = "cloud_init"
    /\ IF "cloud_init" \notin template.keys
       THEN Uncaught("KeyError") /\ UNCHANGED <<log, failed>>
       ELSE IF template.cloud_init
       THEN /\ \E ok \in BOOLEAN : Issue(Shell(idx, CloudInitDriveLine), ok)
            /\ Goto("ciuser")
       ELSE Goto("template") /\ UNCHANGED <<log, failed>>
    /\ UNCHANGED <<Inputs, files, vmconfs, idx, storage_info>>

CloudInitUserLine == "qm set " \o ToString(template.vmid) \o " --ciuser root"

CloudInitUser == RunQm("ciuser", CloudInitUserLine, "template")

ConvertLine == "qm template " \o ToString(template.vmid)

ConvertTemplate == RunQm("template", ConvertLine, "cleanup")

(***************************************************************************)
(* Lines 154-160: both files are removed, and import_template returns.     *)
(***************************************************************************)
Cleanup ==
    /\ pc = "cleanup"
    /\ files' = RemoveBoth(files, filename_dl(template.name),
                           filename_img(template.name))
    /\ log' = Append(log, RemoveEvent("cleanup"))
    /\ Goto("loop")
    /\ UNCHANGED <<Inputs, vmconfs, idx, storage_info, failed>>

Next ==
    \/ CheckTools
    \/ ParseArgs
    \/ LoadConfig
    \/ NextTemplate
    \/ CheckExists
    \/ RemoveStale
    \/ Download
    \/ Unpack
    \/ Customize
    \/ Create
    \/ ImportDisk
    \/ AttachDisk
    \/ SetBoot
    \/ SetSerial
    \/ CloudInitDrive
    \/ CloudInitUser
    \/ ConvertTemplate
    \/ Cleanup

Spec == Init /\ [][Next]_vars

(***************************************************************************)
(* What the properties below read off the record of steps.                 *)
(***************************************************************************)
Templates == yaml.templates

\* The steps taken for the template at position t, in order.
StepsOf(t) == SelectSeq(log, LAMBDA e : e.t = t)

IsPrefix(s, r) == Len(s) <= Len(r) /\ SubSeq(r, 1, Len(s)) = s

\* import_template was called for position t and found no VM definition.
Imported(t) ==
    \E i \in 1..Len(log) : log[i].t = t /\ log[i].op = "exists" /\ ~log[i].res

\* import_template has returned for position t.
Returned(t) == idx > t \/ (idx = t /\ pc = "loop")

IsCustomize(e) == e.op = "run" /\ Head(e.cmd) = "virt-customize"

TemplateSteps == {i \in 1..Len(log) : log[i].t >= 1}

(***************************************************************************)
(* C1: a template whose VM definition file exists when import_template is  *)
(* called is skipped: the skip is reported, nothing else is done for that  *)
(* template (no removal, download, unpack, customization or qm command),   *)
(* and the loop of main() goes on to the next template.                    *)
(***************************************************************************)
C1_SkipExisting ==
    /\ \A i \in 1..Len(log) :
         (log[i].op = "exists" /\ log[i].res) =>
            LET t == log[i].t IN
            /\ i < Len(log)
            /\ log[i + 1].t = t
            /\ log[i + 1].op = "print"
            /\ log[i + 1].cmd = <<"VM " \o ToString(Templates[t].vmid) \o " exists, skipping.">>
            /\ \A j \in 1..Len(log) : log[j].t = t => j \in {i, i + 1}
            /\ idx = t => \/ pc = "loop"
                          \/ pc = "exit" /\ exitcode = exit_ok /\ t = Len(Templates)
    /\ pc \in {"remove_stale", "download", "unpack", "customize", "create"}
         => Templates[idx].vmid \notin vmconfs

\* A template was skipped and the run went on to import the next one.
C1_Witness ==
    \E i \in 1..Len(log) :
        /\ log[i].op = "print"
        /\ Last(log).t = log[i].t + 1
        /\ Last(log).op = "urlretrieve"

(***************************************************************************)
(* C2: once the cleanup step of import_template has run, neither the       *)
(* download file nor the image file of the template exists, with or        *)
(* without an unpack command.                                              *)
(***************************************************************************)
C2_CleanupRemovesBoth ==
    (log # <<>> /\ Last(log).op = "cleanup") =>
        LET name == Templates[Last(log).t].name IN
        /\ filename_dl(name) \notin files
        /\ filename_img(name) \notin files

(***************************************************************************)
(* C3: once a step has failed (the download raised, or a command returned  *)
(* a failure), no further step is issued and no further template is        *)
(* taken up.                                                               *)
(***************************************************************************)
C3_FailureAborts == [][failed => (log' = log /\ idx' = idx)]_vars

(***************************************************************************)
(* C4: with a configuration error (templates.yaml malformed, or some       *)
(* template lacking vmid, name or url) nothing is done for any template,   *)
(* those before the malformed one included.                                *)
(***************************************************************************)
ConfigError ==
    \/ yaml.kind # "ok"
    \/ \E t \in 1..Len(Templates) : ~(RequiredKeys \subseteq Templates[t].keys)

C4_ConfigErrorBeforeTemplates == ConfigError => TemplateSteps = {}

(***************************************************************************)
(* C5: for a template whose VM does not exist the steps are, in this       *)
(* order: download, unpack or rename, customize if there is anything to    *)
(* customize, then qm create, importdisk, scsi0 with the disk identifier   *)
(* of the storage's naming convention, boot disk, serial socket, the       *)
(* cloud-init drive on the same storage and the default user if and only   *)
(* if cloud_init is set, qm template last, then the cleanup.  What has     *)
(* been done for a template is at every moment an initial part of that     *)
(* list, and all of it once import_template has returned.  vmid 9000 on    *)
(* the dir storage `local` attaches local:9000/vm-9000-disk-0.qcow2.       *)
(***************************************************************************)
ConventionDiskId(v) ==
    IF storage_info.cls = "Dir"
    THEN v \o "/vm-" \o v \o "-disk-0.qcow2"
    ELSE "vm-" \o v \o "-disk-0"

WantsCustomize(tp) ==
    "customize" \in tp.keys
    /\ (tp.customize.uploads # <<>> \/ tp.customize.commands # <<>>)

CloudInitSet(tp) == "cloud_init" \in tp.keys /\ tp.cloud_init

ExpectedSteps(t) ==
    LET tp == Templates[t]
        v == ToString(tp.vmid)
        s == storage_info.name
        dl == "./cloud_img/" \o tp.name \o ".img.download"
        img == "./cloud_img/" \o tp.name \o ".img"
        E(op, cmd) == Event(t, op, cmd, {}, TRUE)
        Qm(line) == E("run", <<line>>)
    IN  <<Event(t, "exists", <<"/etc/pve/qemu-server/" \o v \o ".conf">>, {}, FALSE),
          E("remove_stale", <<dl, img>>),
          E("urlretrieve", <<tp.url, dl>>),
          IF "unpack" \in tp.keys /\ tp.unpack # <<>>
          THEN Qm("tar xf " \o dl \o " -O > " \o img)
          ELSE E("rename", <<dl, img>>)>>
        \o (IF WantsCustomize(tp)
            THEN <<Event(t, "run", <<"virt-customize">>,
                         {<<"LIBGUESTFS_BACKEND", "direct">>}, TRUE)>>
            ELSE <<>>)
        \o <<Qm("qm create " \o v \o " --name " \o tp.name
                \o " --memory 512 --net0 virtio,bridge=vmbr0"),
             Qm("qm importdisk " \o v \o " " \o img \o " " \o s \o " -format qcow2"),
             Qm("qm set " \o v \o " --scsihw virtio-scsi-pci --scsi0 " \o s \o ":"
                \o ConventionDiskId(v)),
             Qm("qm set " \o v \o " --boot c --bootdisk scsi0"),
             Qm("qm set " \o v \o " --serial0 socket")>>
        \o (IF CloudInitSet(tp)
            THEN <<Qm("qm set " \o v \o " --ide2 " \o s \o ":cloudinit"),
                   Qm("qm set " \o v \o " --ciuser root")>>
            ELSE <<>>)
        \o <<Qm("qm template " \o v), E("cleanup", <<dl, img>>)>>

\* The steps of a template with the arguments of virt-customize left out.
StepKinds(t) ==
    LET steps == StepsOf(t) IN
    [i \in 1..Len(steps) |->
        IF IsCustomize(steps[i])
        THEN [steps[i] EXCEPT !.cmd = <<"virt-customize">>]
        ELSE steps[i]]

C5_StepOrder ==
    \A t \in 1..Len(Templates) :
        Imported(t) =>
            /\ IsPrefix(StepKinds(t), ExpectedSteps(t))
            /\ Returned(t) => StepKinds(t) = ExpectedSteps(t)
            /\ (Returned(t) /\ Templates[t].vmid = 9000 /\ storage_info = Dir("local"))
                 => Contains(StepsOf(t),
                             Shell(t, "qm set 9000 --scsihw virtio-scsi-pci --scsi0 local:9000/vm-9000-disk-0.qcow2"))

\* A template with an unpack command, a customization and cloud-init has
\* been imported to the end on the dir storage `local`.
C5_Witness ==
    /\ idx = 1
    /\ pc = "loop"
    /\ Imported(1)
    /\ storage_info = Dir("local")
    /\ Templates[1].vmid = 9000
    /\ "unpack" \in Templates[1].keys
    /\ WantsCustomize(Templates[1])
    /\ CloudInitSet(Templates[1])

(***************************************************************************)
(* C6: with a vm-name argument only the templates of that name are handed  *)
(* to import_template, and nothing (no existence check, download or        *)
(* command) is done for any other; if no name matches, nothing is done for *)
(* any template and the run ends without an error.  Without a vm-name      *)
(* every template is processed.  In both cases the templates are taken in  *)
(* the order of the list, each once, each to its end before the next.      *)
(***************************************************************************)
Matches(t) ==
    ~HasVmName \/ ("name" \in Templates[t].keys /\ Templates[t].name = argv[2])

Called(t) == \E i \in 1..Len(log) : log[i].t = t

\* main() has opened templates.yaml and got a template list from it.
LoopReached == yaml.kind = "ok" /\ \E i \in 1..Len(log) : log[i].op = "open"

C6_NameFilter ==
    /\ \A i \in TemplateSteps : Matches(log[i].t)
    /\ \A i \in 1..(Len(log) - 1) :
         /\ log[i].t <= log[i + 1].t
         /\ log[i + 1].op = "exists" <=> log[i].t < log[i + 1].t
         /\ (log[i].t >= 1 /\ log[i].t < log[i + 1].t)
              => log[i].op \in {"print", "cleanup"}
    /\ (pc = "exit" /\ exitcode = exit_ok)
         => \A t \in 1..Len(Templates) : Called(t) <=> Matches(t)
    /\ (pc = "exit" /\ LoopReached
        /\ \A t \in 1..Len(Templates) : "name" \in Templates[t].keys /\ ~Matches(t))
         => (exitcode = exit_ok /\ exc = "" /\ TemplateSteps = {})

\* A run with a vm-name has ended: the first template was not of that name
\* and nothing was done for it, the second was and has been imported.
C6_Witness ==
    /\ HasVmName
    /\ pc = "exit"
    /\ exitcode = exit_ok
    /\ Len(Templates) = 2
    /\ ~Matches(1)
    /\ Imported(2)

(***************************************************************************)
(* C7: check_storage gives, for the storage named on the command line:     *)
(* `does not exist` if no record of the inventory has that name; `does not *)
(* support VM images` if the (first) record of that name has no `images`   *)
(* among the comma-separated entries of its content, whatever its type;    *)
(* else Dir for the types dir, nfs, glusterfs, Raw for zfspool, lvm,       *)
(* lvmthin, and `Unsupported PVE storage type` for any other type.  Each   *)
(* of the errors ends the run before templates.yaml is opened and before   *)
(* anything is done for a template.                                        *)
(***************************************************************************)
ListsImages(content) ==
    \E k \in 1..Len(content) :
        /\ content[k] = "images"
        /\ k = 1 \/ content[k - 1] = ","
        /\ k = Len(content) \/ content[k + 1] = ","

StorageQueried ==
    /\ exc # "CalledProcessError"
    /\ \E i \in 1..Len(log) : log[i].op = "check_output"

C7_CheckStorage ==
    StorageQueried =>
        LET name == argv[1]
            named == {i \in 1..Len(storages) : storages[i].storage = name}
            first == CHOOSE i \in named : \A j \in named : i <= j
            typ == storages[first].type
            error ==
                IF named = {}
                THEN "PVE storage " \o name \o " does not exist."
                ELSE IF ~ListsImages(storages[first].content)
                THEN "PVE storage " \o name \o " does not support VM images."
                ELSE IF typ \notin {"dir", "nfs", "glusterfs", "zfspool", "lvm", "lvmthin"}
                THEN "Unsupported PVE storage type " \o typ \o "."
                ELSE ""
        IN  IF error # ""
            THEN /\ pc = "exit"
                 /\ exc = error
                 /\ exitcode # exit_ok
                 /\ storage_info = NoStorage
                 /\ \A i \in 1..Len(log) : log[i].op \in {"call", "check_output"}
            ELSE /\ storage_info.name = name
                 /\ typ \in {"dir", "nfs", "glusterfs"} => storage_info.cls = "Dir"
                 /\ typ \in {"zfspool", "lvm", "lvmthin"} => storage_info.cls = "Raw"

\* The storage is the second record of the inventory, an lvmthin one whose
\* content lists images after another entry, and a template is being imported.
C7_Witness ==
    /\ pc = "download"
    /\ Len(storages) = 2
    /\ storages[1].storage # argv[1]
    /\ storages[2].storage = argv[1]
    /\ storages[2].type = "lvmthin"
    /\ storages[2].content = <<"iso", ",", "images", ",", "rootdir">>
    /\ storage_info = Raw(argv[1])

(***************************************************************************)
(* C8: if virt-customize or unzip is not on PATH the run ends with exit    *)
(* status 2, whatever the arguments, before the storage is queried,        *)
(* templates.yaml opened or anything done for a template; if both are      *)
(* there and the storage-name argument is missing it ends with exit status *)
(* 1, again before any of these.                                           *)
(***************************************************************************)
OnlyProbes ==
    /\ \A i \in 1..Len(log) : log[i].op = "call"
    /\ storage_info = NoStorage
    /\ idx = 0

C8_StartupValidation ==
    /\ tools # Tools =>
         /\ pc \in {"main", "exit"}
         /\ pc = "exit" => exitcode = 2
         /\ OnlyProbes
    /\ (tools = Tools /\ argv = <<>>) =>
         /\ pc \in {"main", "args", "exit"}
         /\ pc = "exit" => exitcode = 1
         /\ OnlyProbes

\* unzip is missing and both arguments are given: the run has ended with 2.
C8_Witness ==
    /\ tools = {"virt-customize"}
    /\ Len(argv) = 2
    /\ pc = "exit"
    /\ exitcode = 2

(***************************************************************************)
(* C9: virt-customize is run for a template if and only if its customize   *)
(* has at least one upload or command; its arguments are then an           *)
(* --upload pair for each upload in list order followed by a --run-command *)
(* pair for each command in list order; and it is run when the final       *)
(* image exists and before qm create.                                      *)
(***************************************************************************)
RECURSIVE Pairs(_, _)
Pairs(flag, list) ==
    IF Len(list) = 0 THEN <<>>
    ELSE Pairs(flag, SubSeq(list, 1, Len(list) - 1)) \o <<flag, list[Len(list)]>>

IsCreate(e, t) ==
    e.op = "run" /\ e.cmd = <<"qm create " \o ToString(Templates[t].vmid) \o " --name "
                              \o Templates[t].name
                              \o " --memory 512 --net0 virtio,bridge=vmbr0">>

\* The part of C9 on when virt-customize is run, with which arguments, and
\* where among the steps.
C9_CustomizeInvocation ==
    \A t \in 1..Len(Templates) :
        LET steps == StepsOf(t)
            runs == {i \in 1..Len(steps) : IsCustomize(steps[i])}
            creates == {i \in 1..Len(steps) : IsCreate(steps[i], t)}
            tp == Templates[t]
        IN  /\ runs # {} => WantsCustomize(tp)
            /\ (creates # {} /\ WantsCustomize(tp)) => runs # {}
            /\ Cardinality(runs) <= 1
            /\ \A i \in runs :
                 /\ steps[i].cmd =
                      <<"virt-customize", "-a", "./cloud_img/" \o tp.name \o ".img">>
                      \o Pairs("--upload", tp.customize.uploads)
                      \o Pairs("--run-command", tp.customize.commands)
                 /\ steps[i - 1].op \in {"rename", "run"}
                 /\ steps[i - 2].op = "urlretrieve"
                 /\ \A j \in creates : i < j

\* The part of C9 on the final image: it exists when virt-customize is run.
C9_ImageExistsAtCustomize ==
    (log # <<>> /\ IsCustomize(Last(log)))
        => filename_img(Templates[Last(log).t].name) \in files

C9_Customize == C9_CustomizeInvocation /\ C9_ImageExistsAtCustomize

(***************************************************************************)
(* C10: after the removal of the leftovers that precedes the download,     *)
(* neither the download file nor the image file of the template exists,    *)
(* whichever of the two existed before, and the import goes on.            *)
(***************************************************************************)
C10_StaleFilesRemoved ==
    (log # <<>> /\ Last(log).op = "remove_stale") =>
        LET name == Templates[Last(log).t].name IN
        /\ filename_dl(name) \notin files
        /\ filename_img(name) \notin files
        /\ pc = "download"
====
